---- MODULE Spec2Model ----
(***************************************************************************)
(* A model of denarced/gent: of package snap, the snapshot store           *)
(* (SnapshotSuite, Snapshot.read / write / Run), ToSafeFilename and the    *)
(* Bubble Tea replay (RunBubbleTeaSnapshots, runUpdates,                   *)
(* readMessageGroups, createKey); of package gent, Set.                    *)
(*                                                                         *)
(* Strings are sequences of one-character strings, so that formatting,     *)
(* splitting, trimming and replacing are computed character by character.  *)
(* The file system is a function from the paths of the existing files to   *)
(* their content; a path outside its domain is an absent file.             *)
(*                                                                         *)
(* Specifications: Spec (the store), SettleSpec (runUpdates), ReplaySpec   *)
(* (RunBubbleTeaSnapshots), ParseSpec (readMessageGroups), DecodeSpec      *)
(* (createKey), SanitizeSpec (ToSafeFilename) and SetSpec (Set).           *)
(***************************************************************************)
EXTENDS Integers, Sequences, FiniteSets, TLC

VARIABLES
    fs,         \* the file system: existing path -> content
    snapshot,   \* the Snapshot handle the test holds (store specification)
    last,       \* what the latest Snapshot.Run did (store specification)
    pc,         \* position of RunBubbleTeaSnapshots / runUpdates
    seriesID,   \* RunBubbleTeaSnapshots' seriesID
    rverify,    \* RunBubbleTeaSnapshots' verify
    groups,     \* messageGroups, as readMessageGroups returned them
    gi,         \* the index i of the group loop (0-based), -1 before the loop
    ei,         \* number of events of the group handed to runUpdates
    m,          \* the tea.Model value the harness holds
    cmd,        \* runUpdates' cmd
    msg,        \* runUpdates' msg argument
    counter,    \* runUpdates' counter
    iter,       \* iterations of runUpdates' loop begun in the current call
    obs,        \* observations of the calls made so far (history)
    prev,       \* what the Run before the latest recorded (store specification)
    set,        \* the map m of the Set under test (gent.go)
    ret,        \* the latest call of a Set method or of a function without state
    dirs,       \* the directories of the file system AssertFs writes to
    procs       \* the processes running Snapshot.Run side by side: each one's position

storeVars == <<fs, snapshot, last>>
replayVars == <<pc, seriesID, rverify, groups, gi, ei, m, cmd, msg, counter, iter, obs>>
toolVars == <<set, ret, dirs, procs>>
vars == <<fs, snapshot, last, pc, seriesID, rverify, groups, gi, ei, m, cmd, msg,
          counter, iter, obs, prev, set, ret, dirs, procs>>

-----------------------------------------------------------------------------
(* Bounds of the model.                                                    *)

\* Longest rendered view of the store specification, in characters.
MaxViewLen == 2

\* Most lines of a script file of the replay specification.
MaxLines == 2

\* Longest finite effect chain of a component of the replay specification.
MaxChain == 2

\* How far past the fuse the finite effect chains of the settle specification go.
MaxOver == 1

\* Longest script file of the parse specification, in characters.
MaxFileLen == 4

\* Longest token of the decode specification drawn from its alphabet.
MaxTokenLen == 3

\* Longest name of the sanitize specification, in characters.
MaxNameLen == 3

\* Most arguments of NewSet in the set specification.
MaxItems == 3

\* Most NaN keys Add puts into a map in the set specification.
MaxNaN == 2

-----------------------------------------------------------------------------
(* Strings.                                                                *)

RECURSIVE SeqsUpTo(_, _)
\* Every sequence over alphabet of length at most n.
SeqsUpTo(alphabet, n) ==
    IF n = 0 THEN {<< >>}
    ELSE LET shorter == SeqsUpTo(alphabet, n - 1)
         IN  shorter \cup {Append(s, c) : s \in shorter, c \in alphabet}

\* The first n characters of s.
Prefix(s, n) == SubSeq(s, 1, n)

\* s without its first n characters.
Drop(s, n) == SubSeq(s, n + 1, Len(s))

\* strings.HasPrefix
HasPrefix(s, prefix) == Len(s) >= Len(prefix) /\ Prefix(s, Len(prefix)) = prefix

\* The decimal digits as characters.
Digits == <<"0", "1", "2", "3", "4", "5", "6", "7", "8", "9">>

RECURSIVE Decimal(_)
\* fmt's %d of a natural number.
Decimal(n) == IF n < 10 THEN <<Digits[n + 1]>> ELSE Append(Decimal(n \div 10), Digits[(n % 10) + 1])

RECURSIVE PadLeft(_, _, _)
\* s padded on the left with character c to width at least w.
PadLeft(s, w, c) == IF Len(s) >= w THEN s ELSE PadLeft(<<c>> \o s, w, c)

RECURSIVE Split(_, _)
\* strings.Split / bytes.Split of s on the one-character separator sep:
\* always at least one piece.
Split(s, sep) ==
    IF \A k \in 1..Len(s) : s[k] # sep THEN <<s>>
    ELSE LET at == CHOOSE k \in 1..Len(s) : s[k] = sep /\ \A j \in 1..(k - 1) : s[j] # sep
         IN  <<Prefix(s, at - 1)>> \o Split(Drop(s, at), sep)

\* The white space bytes.TrimSpace removes, as far as a string literal can
\* name it (it also removes vertical tab, U+0085 and U+00A0).
Space == {" ", "\t", "\n", "\r", "\f"}

RECURSIVE TrimLeft(_)
TrimLeft(s) == IF s # << >> /\ s[1] \in Space THEN TrimLeft(Drop(s, 1)) ELSE s

RECURSIVE TrimRight(_)
TrimRight(s) == IF s # << >> /\ s[Len(s)] \in Space THEN TrimRight(Prefix(s, Len(s) - 1)) ELSE s

\* bytes.TrimSpace
TrimSpace(s) == TrimRight(TrimLeft(s))

RECURSIVE JoinLines(_)
\* The lines joined by newlines.
JoinLines(lines) ==
    IF lines = << >> THEN << >>
    ELSE IF Len(lines) = 1 THEN lines[1]
    ELSE lines[1] \o <<"\n">> \o JoinLines(Drop(lines, 1))

-----------------------------------------------------------------------------
(* The snapshot store: src/snap/snap.go.                                   *)

\* SnapshotSuite.rootDir of the suite under test ("t").
rootDir == <<"t">>

\* The characters a rendered view is made of, and the views ("", "x", "xx").
ViewChars == {"x"}
Views == SeqsUpTo(ViewChars, MaxViewLen)

\* The snapshot names of the store specification (already safe file names).
TestNames == {<<"x", "_", "w">>, <<"s", "t">>}

\* filepath.Join(dir, name) for a clean dir and a name without separators or
\* dot elements: an empty element is ignored, otherwise dir/name.
Join(dir, name) ==
    IF name = << >> THEN dir
    ELSE IF dir = << >> THEN name
    ELSE dir \o <<"/">> \o name

\* SnapshotSuite.deriveSnapshotFilep
deriveSnapshotFilep(suiteRoot, name) == Join(suiteRoot, name)

\* The characters nonSafeFilenamePattern, [^0-9a-zA-Z-._], does not match.
SafeChars ==
    {"0", "1", "2", "3", "4", "5", "6", "7", "8", "9"}
    \cup {"a", "b", "c", "d", "e", "f", "g", "h", "i", "j", "k", "l", "m",
          "n", "o", "p", "q", "r", "s", "t", "u", "v", "w", "x", "y", "z"}
    \cup {"A", "B", "C", "D", "E", "F", "G", "H", "I", "J", "K", "L", "M",
          "N", "O", "P", "Q", "R", "S", "T", "U", "V", "W", "X", "Y", "Z"}
    \cup {"-", ".", "_"}

\* nonSafeFilenamePattern matches character c.
NonSafe(c) == c \notin SafeChars

\* ToSafeFilename with regexp.ReplaceAllString replacing the first match only.
ToSafeFilenameFirstOnly(s) ==
    IF \A k \in 1..Len(s) : ~NonSafe(s[k]) THEN s
    ELSE LET at == CHOOSE k \in 1..Len(s) : NonSafe(s[k]) /\ \A j \in 1..(k - 1) : ~NonSafe(s[j])
         IN  Prefix(s, at - 1) \o <<"_">> \o Drop(s, at)

RECURSIVE ToSafeFilenameCollapsing(_)
\* ToSafeFilename with the pattern [^0-9a-zA-Z-._]+ : a run of matches is
\* replaced by one underscore.
ToSafeFilenameCollapsing(s) ==
    IF \A k \in 1..Len(s) : ~NonSafe(s[k]) THEN s
    ELSE LET at == CHOOSE k \in 1..Len(s) : NonSafe(s[k]) /\ \A j \in 1..(k - 1) : ~NonSafe(s[j])
             rest == ToSafeFilenameCollapsing(Drop(s, at))
         IN  IF at < Len(s) /\ NonSafe(s[at + 1])
             THEN Prefix(s, at - 1) \o rest
             ELSE Prefix(s, at - 1) \o <<"_">> \o rest

RECURSIVE ToSafeFilenameEscaping(_)
\* ToSafeFilename made injective on underscores: an underscore of s is
\* doubled, every other character treated as ToSafeFilename treats it.
ToSafeFilenameEscaping(s) ==
    IF s = << >> THEN << >>
    ELSE (IF s[1] = "_" THEN <<"_", "_">> ELSE IF NonSafe(s[1]) THEN <<"_">> ELSE <<s[1]>>)
         \o ToSafeFilenameEscaping(Drop(s, 1))

RECURSIVE ToSafeFilename(_)
\* ToSafeFilename: nonSafeFilenamePattern.ReplaceAllString(s, "_"), the
\* matches found from left to right, each one character wide.
ToSafeFilename(s) ==
    IF \A k \in 1..Len(s) : ~NonSafe(s[k]) THEN s
    ELSE LET at == CHOOSE k \in 1..Len(s) : NonSafe(s[k]) /\ \A j \in 1..(k - 1) : ~NonSafe(s[j])
         IN  Prefix(s, at - 1) \o <<"_">> \o ToSafeFilename(Drop(s, at))

\* No Snapshot created yet.
NoSnapshot == [live |-> FALSE, Name |-> << >>, filep |-> << >>, verify |-> FALSE]

\* SnapshotSuite.NewSnapshot (the equal function is the environment's: its
\* invocations are recorded by Run).
NewSnapshot(suiteRoot, name, verify) ==
    [live |-> TRUE, Name |-> name, filep |-> deriveSnapshotFilep(suiteRoot, name),
     verify |-> verify]

\* What os.ReadFile can do besides succeed or report "not exist".
ReadFaults == {"ok", "EACCES"}

\* Snapshot.read without the os.IsNotExist test: a missing file is an error.
readMissingIsError(fsys, filep, rfault) ==
    IF rfault # "ok" THEN [content |-> << >>, err |-> rfault]
    ELSE IF filep \notin DOMAIN fsys THEN [content |-> << >>, err |-> "ENOENT"]
    ELSE [content |-> fsys[filep], err |-> "nil"]

\* Snapshot.read: content and err; a file that does not exist reads as "".
read(fsys, filep, rfault) ==
    IF rfault # "ok" THEN [content |-> << >>, err |-> rfault]
    ELSE IF filep \notin DOMAIN fsys THEN [content |-> << >>, err |-> "nil"]
    ELSE [content |-> fsys[filep], err |-> "nil"]

\* What os.WriteFile can do with data: open (create, truncate) may fail, the
\* write may stop after n bytes, closing may fail after a complete write.
WriteOutcomes(data) ==
    {[opened |-> FALSE, n |-> 0, err |-> "EACCES"]}
    \cup {[opened |-> TRUE, n |-> k, err |-> "EIO"] : k \in 0..Len(data)}
    \cup {[opened |-> TRUE, n |-> Len(data), err |-> "nil"]}

\* The file system with path p holding content c.
Store(fsys, p, c) == [q \in DOMAIN fsys \cup {p} |-> IF q = p THEN c ELSE fsys[q]]

\* Snapshot.write ending the content with a newline, as fmt.Fprintln would.
writeWithNewline(fsys, filep, content, w) ==
    [fs  |-> IF w.opened
             THEN Store(fsys, filep,
                        Prefix(content, w.n) \o (IF w.err = "nil" THEN <<"\n">> ELSE << >>))
             ELSE fsys,
     err |-> w.err]

\* Snapshot.write under outcome w: the file system it leaves and err.
write(fsys, filep, content, w) ==
    [fs  |-> IF w.opened THEN Store(fsys, filep, Prefix(content, w.n)) ELSE fsys,
     err |-> w.err]

\* Snapshot.Run with the verify flag ignored: any stored content is compared.
RunAlwaysVerifies(s, view, fsys, rfault, w) ==
    LET r == read(fsys, s.filep, rfault)
    IN  IF r.err # "nil"
        THEN [fs |-> fsys, err |-> r.err, equal |-> << >>, writes |-> 0, w |-> w]
        ELSE IF r.content # << >>
        THEN [fs |-> fsys, err |-> "nil",
              equal |-> <<[expected |-> r.content, actual |-> view, message |-> s.Name]>>,
              writes |-> 0, w |-> w]
        ELSE IF view # r.content
        THEN LET wr == write(fsys, s.filep, view, w)
             IN  [fs |-> wr.fs, err |-> wr.err, equal |-> << >>, writes |-> 1, w |-> w]
        ELSE [fs |-> fsys, err |-> "nil", equal |-> << >>, writes |-> 0, w |-> w]

\* Snapshot.Run with the arguments of equal swapped.
RunSwapsArguments(s, view, fsys, rfault, w) ==
    LET r == read(fsys, s.filep, rfault)
    IN  IF r.err # "nil"
        THEN [fs |-> fsys, err |-> r.err, equal |-> << >>, writes |-> 0, w |-> w]
        ELSE IF s.verify /\ r.content # << >>
        THEN [fs |-> fsys, err |-> "nil",
              equal |-> <<[expected |-> view, actual |-> r.content, message |-> s.Name]>>,
              writes |-> 0, w |-> w]
        ELSE IF view # r.content
        THEN LET wr == write(fsys, s.filep, view, w)
             IN  [fs |-> wr.fs, err |-> wr.err, equal |-> << >>, writes |-> 1, w |-> w]
        ELSE [fs |-> fsys, err |-> "nil", equal |-> << >>, writes |-> 0, w |-> w]

\* Snapshot.Run without the test for empty content: verify always compares.
RunVerifyNeverRecords(s, view, fsys, rfault, w) ==
    LET r == read(fsys, s.filep, rfault)
    IN  IF r.err # "nil"
        THEN [fs |-> fsys, err |-> r.err, equal |-> << >>, writes |-> 0, w |-> w]
        ELSE IF s.verify
        THEN [fs |-> fsys, err |-> "nil",
              equal |-> <<[expected |-> r.content, actual |-> view, message |-> s.Name]>>,
              writes |-> 0, w |-> w]
        ELSE IF view # r.content
        THEN LET wr == write(fsys, s.filep, view, w)
             IN  [fs |-> wr.fs, err |-> wr.err, equal |-> << >>, writes |-> 1, w |-> w]
        ELSE [fs |-> fsys, err |-> "nil", equal |-> << >>, writes |-> 0, w |-> w]

\* Snapshot.Run taking an empty view as a baseline: under verify, an empty
\* view is compared with empty content.
RunVerifiesEmptyView(s, view, fsys, rfault, w) ==
    LET r == read(fsys, s.filep, rfault)
    IN  IF r.err # "nil"
        THEN [fs |-> fsys, err |-> r.err, equal |-> << >>, writes |-> 0, w |-> w]
        ELSE IF s.verify /\ (r.content # << >> \/ view = << >>)
        THEN [fs |-> fsys, err |-> "nil",
              equal |-> <<[expected |-> r.content, actual |-> view, message |-> s.Name]>>,
              writes |-> 0, w |-> w]
        ELSE IF view # r.content
        THEN LET wr == write(fsys, s.filep, view, w)
             IN  [fs |-> wr.fs, err |-> wr.err, equal |-> << >>, writes |-> 1, w |-> w]
        ELSE [fs |-> fsys, err |-> "nil", equal |-> << >>, writes |-> 0, w |-> w]

\* Snapshot.Run without the verify branch: a mismatch is always written.
RunAlwaysWrites(s, view, fsys, rfault, w) ==
    LET r == read(fsys, s.filep, rfault)
    IN  IF r.err # "nil"
        THEN [fs |-> fsys, err |-> r.err, equal |-> << >>, writes |-> 0, w |-> w]
        ELSE IF view # r.content
        THEN LET wr == write(fsys, s.filep, view, w)
             IN  [fs |-> wr.fs, err |-> wr.err, equal |-> << >>, writes |-> 1, w |-> w]
        ELSE [fs |-> fsys, err |-> "nil", equal |-> << >>, writes |-> 0, w |-> w]

\* Snapshot.Run without the test view != content: the recording branch
\* always writes.
RunRewrites(s, view, fsys, rfault, w) ==
    LET r == read(fsys, s.filep, rfault)
    IN  IF r.err # "nil"
        THEN [fs |-> fsys, err |-> r.err, equal |-> << >>, writes |-> 0, w |-> w]
        ELSE IF s.verify /\ r.content # << >>
        THEN [fs |-> fsys, err |-> "nil",
              equal |-> <<[expected |-> r.content, actual |-> view, message |-> s.Name]>>,
              writes |-> 0, w |-> w]
        ELSE LET wr == write(fsys, s.filep, view, w)
             IN  [fs |-> wr.fs, err |-> wr.err, equal |-> << >>, writes |-> 1, w |-> w]

\* Snapshot.Run(view) of handle s: the file system it leaves, the error it
\* returns, its invocations of equal, the number of writes it issued and the
\* outcome w the environment had in store for a write.
Run(s, view, fsys, rfault, w) ==
    LET r == read(fsys, s.filep, rfault)
    IN  IF r.err # "nil"
        THEN [fs |-> fsys, err |-> r.err, equal |-> << >>, writes |-> 0, w |-> w]
        ELSE IF s.verify /\ r.content # << >>
        THEN [fs |-> fsys, err |-> "nil",
              equal |-> <<[expected |-> r.content, actual |-> view, message |-> s.Name]>>,
              writes |-> 0, w |-> w]
        ELSE IF view # r.content
        THEN LET wr == write(fsys, s.filep, view, w)
             IN  [fs |-> wr.fs, err |-> wr.err, equal |-> << >>, writes |-> 1, w |-> w]
        ELSE [fs |-> fsys, err |-> "nil", equal |-> << >>, writes |-> 0, w |-> w]

\* The content of path p, an absent file read as the empty string.
ContentOf(fsys, p) == IF p \in DOMAIN fsys THEN fsys[p] ELSE << >>

\* The latest Run, before any Run was made.
NoRun == [ran |-> FALSE, s |-> NoSnapshot, view |-> << >>, pre |-> << >>,
          rfault |-> "ok", w |-> [opened |-> TRUE, n |-> 0, err |-> "nil"],
          err |-> "nil", equal |-> << >>, writes |-> 0]

\* The record of a Run of handle s on view from file system pre.
RunRecord(s, view, pre, rfault, r) ==
    [ran |-> TRUE, s |-> s, view |-> view, pre |-> pre, rfault |-> rfault, w |-> r.w,
     err |-> r.err, equal |-> r.equal, writes |-> r.writes]

\* No Run has left a record of its view.
NoPrev == [recorded |-> FALSE, Name |-> << >>, verify |-> FALSE, view |-> << >>]

\* What the Run described by l recorded: l took the recording branch of Run
\* (verify false, or verify true with no snapshot file) and returned no error.
Recorded(l) ==
    IF l.ran /\ l.err = "nil" /\ (~l.s.verify \/ l.s.filep \notin DOMAIN l.pre)
    THEN [recorded |-> TRUE, Name |-> l.s.Name, verify |-> l.s.verify, view |-> l.view]
    ELSE NoPrev

\* The file systems a test can start from: each snapshot file absent, empty
\* or holding some earlier view.
InitialFileSystems ==
    LET paths == {deriveSnapshotFilep(rootDir, n) : n \in TestNames}
    IN  UNION {[present -> Views] : present \in SUBSET paths}

-----------------------------------------------------------------------------
(* The replay: RunBubbleTeaSnapshots, runUpdates, readMessageGroups and     *)
(* createKey of src/snap/snap.go.                                          *)

\* counter := 100 in runUpdates.
FuseLimit == 100

\* fmt.Sprintf("%s_%d", seriesID, i): the index without zero padding.
SnapshotNameUnpadded(id, i) == id \o <<"_">> \o Decimal(i)

\* The snapshot name without the index: every snapshot of a series in one file.
SnapshotNameNoIndex(id, i) == id

\* fmt.Sprintf("%s_%03d", seriesID, i)
SnapshotName(id, i) == id \o <<"_">> \o PadLeft(Decimal(i), 3, "0")

\* A byte of a string that is not part of any valid UTF-8 encoding, and the
\* character U+FFFD Go decodes such a byte to.  These two are the only
\* elements of a string of the model that are not one-character strings.
InvalidByte == "0xFF"
ReplacementChar == "U+FFFD"

\* []rune(s): the characters decoded from s, U+FFFD for each invalid byte.
ToRunes(s) == [k \in 1..Len(s) |-> IF s[k] = InvalidByte THEN ReplacementChar ELSE s[k]]

\* strings.ToLower on the letters the tokens of the model are written in.
ToLower(s) ==
    [k \in 1..Len(s) |-> CASE s[k] = "E" -> "e" [] s[k] = "N" -> "n" [] s[k] = "T" -> "t"
                            [] s[k] = "R" -> "r" [] s[k] = "U" -> "u" [] s[k] = "P" -> "p"
                            [] OTHER -> s[k]]

\* createKey switching on strings.ToLower(s): the reserved tokens in any case.
createKeyAnyCase(s) ==
    CASE ToLower(s) = <<"e", "n", "t", "e", "r">> -> [kind |-> "key", Type |-> "KeyEnter", Runes |-> << >>]
      [] ToLower(s) = <<"t", "a", "b">>           -> [kind |-> "key", Type |-> "KeyTab", Runes |-> << >>]
      [] ToLower(s) = <<"e", "s", "c">>           -> [kind |-> "key", Type |-> "KeyEsc", Runes |-> << >>]
      [] ToLower(s) = <<"u", "p">>                -> [kind |-> "key", Type |-> "KeyUp", Runes |-> << >>]
      [] ToLower(s) = <<"d", "o", "w", "n">>      -> [kind |-> "key", Type |-> "KeyDown", Runes |-> << >>]
      [] OTHER                                    -> [kind |-> "key", Type |-> "KeyRunes", Runes |-> ToRunes(s)]

\* createKey: the five reserved tokens are control keys, any other token is
\* one KeyRunes message holding []rune(s).
createKey(s) ==
    CASE s = <<"e", "n", "t", "e", "r">> -> [kind |-> "key", Type |-> "KeyEnter", Runes |-> << >>]
      [] s = <<"t", "a", "b">>           -> [kind |-> "key", Type |-> "KeyTab", Runes |-> << >>]
      [] s = <<"e", "s", "c">>           -> [kind |-> "key", Type |-> "KeyEsc", Runes |-> << >>]
      [] s = <<"u", "p">>                -> [kind |-> "key", Type |-> "KeyUp", Runes |-> << >>]
      [] s = <<"d", "o", "w", "n">>      -> [kind |-> "key", Type |-> "KeyDown", Runes |-> << >>]
      [] OTHER                           -> [kind |-> "key", Type |-> "KeyRunes", Runes |-> ToRunes(s)]

\* The path of the script of series id.
ScriptPath(root, id) == Join(root, id \o <<".", "t", "x", "t">>)

RECURSIVE GroupsOfUntrimmed(_)
\* The loop of readMessageGroups without bytes.TrimSpace.
GroupsOfUntrimmed(lines) ==
    IF lines = << >> THEN << >>
    ELSE LET line == lines[1]
             rest == GroupsOfUntrimmed(Drop(lines, 1))
         IN  IF line = << >> \/ HasPrefix(line, <<"#">>) \/ HasPrefix(line, <<"/", "/">>)
             THEN rest
             ELSE <<Split(line, ",")>> \o rest

RECURSIVE GroupsOfTrimmedTokens(_)
\* The loop of readMessageGroups with strings.TrimSpace applied to every
\* token of a line as well.
GroupsOfTrimmedTokens(lines) ==
    IF lines = << >> THEN << >>
    ELSE LET line == TrimSpace(lines[1])
             rest == GroupsOfTrimmedTokens(Drop(lines, 1))
             tokens == Split(line, ",")
         IN  IF line = << >> \/ HasPrefix(line, <<"#">>) \/ HasPrefix(line, <<"/", "/">>)
             THEN rest
             ELSE <<[k \in 1..Len(tokens) |-> TrimSpace(tokens[k])]>> \o rest

RECURSIVE GroupsOf(_)
\* The loop of readMessageGroups over the lines of the file.
GroupsOf(lines) ==
    IF lines = << >> THEN << >>
    ELSE LET line == TrimSpace(lines[1])
             rest == GroupsOf(Drop(lines, 1))
         IN  IF line = << >> \/ HasPrefix(line, <<"#">>) \/ HasPrefix(line, <<"/", "/">>)
             THEN rest
             ELSE <<Split(line, ",")>> \o rest

\* readMessageGroups reading the script as Snapshot.read reads a snapshot: a
\* file that does not exist is an empty script.
readMessageGroupsMissingIsEmpty(fsys, root, id, rfault) ==
    LET filep == ScriptPath(root, id)
    IN  IF rfault # "ok" THEN [err |-> rfault, groups |-> << >>]
        ELSE IF filep \notin DOMAIN fsys THEN [err |-> "nil", groups |-> << >>]
        ELSE [err |-> "nil", groups |-> GroupsOf(Split(fsys[filep], "\n"))]

\* readMessageGroups: the groups, or the error it panics with (here a file
\* that does not exist is an error like any other).
readMessageGroups(fsys, root, id, rfault) ==
    LET filep == ScriptPath(root, id)
    IN  IF rfault # "ok" THEN [err |-> rfault, groups |-> << >>]
        ELSE IF filep \notin DOMAIN fsys THEN [err |-> "ENOENT", groups |-> << >>]
        ELSE [err |-> "nil", groups |-> GroupsOf(Split(fsys[filep], "\n"))]

(* The component (tea.Model) is the caller's.  The components of the model  *)
(* answer every message from outside (a key, or what runUpdates is handed   *)
(* after Init) with a chain of `chain` effects (Eternal: without end).     *)
(* With tail = "cmd" every effect of the chain yields a message and the     *)
(* update after the last one returns no effect; with tail = "msg" the last *)
(* effect of the chain yields no message when forced; with tail = "keys"   *)
(* the component is as with "cmd", but answers what runUpdates is handed   *)
(* after Init with no effect.  n counts the updates the value went         *)
(* through, and the view renders it.                                       *)

Eternal == -1
NilCmd == [kind |-> "nilcmd", yields |-> [kind |-> "nil"]]
NilMsg == [kind |-> "nil"]
FollowMsg == [kind |-> "follow"]

\* The component with the given behaviour, before any update.
Component(chain, tail, initCmd) ==
    [n |-> 0, left |-> 0, chain |-> chain, tail |-> tail, initCmd |-> initCmd]

\* The effect the component returns when `left` effects of its chain remain.
EffectFor(model, left) ==
    IF left = 0 THEN NilCmd
    ELSE [kind |-> "cmd",
          yields |-> IF left = 1 /\ model.tail = "msg" THEN NilMsg ELSE FollowMsg]

\* m.Init()
ModelInit(model) == IF model.initCmd THEN [kind |-> "cmd", yields |-> FollowMsg] ELSE NilCmd

\* m.View()
ModelView(model) == Decimal(model.n)

\* m.Update(message): the next component value and the effect.
ModelUpdate(model, message) ==
    LET left == CASE message.kind = "key" -> model.chain
                  [] message.kind = "cmdAsMsg" ->
                        IF model.tail = "keys" THEN 0 ELSE model.chain
                  [] message.kind = "follow" ->
                        IF model.left = Eternal THEN Eternal
                        ELSE IF model.left > 0 THEN model.left - 1 ELSE 0
                  [] OTHER -> 0
    IN  [model |-> [model EXCEPT !.n = @ + 1, !.left = left],
         cmd |-> EffectFor(model, left)]

\* cmd(): forcing an effect.
Force(c) == c.yields

\* The fuse of runUpdates' loop, testing counter < 0.
FuseBlownLate(ctr) == ctr < 0

\* The fuse of runUpdates' loop: counter <= 0 after the decrement.
FuseBlown(ctr) == ctr <= 0

\* The body of runUpdates' loop with the returned component dropped.
LoopBodyKeepsModel(model, c, ctr) ==
    LET u == ModelUpdate(model, Force(c))
    IN  [model |-> model, cmd |-> u.cmd, counter |-> ctr - 1, panic |-> FuseBlown(ctr - 1)]

\* The body of runUpdates' loop: m, cmd = m.Update(cmd()); counter--; the fuse.
LoopBody(model, c, ctr) ==
    LET u == ModelUpdate(model, Force(c))
    IN  [model |-> u.model, cmd |-> u.cmd, counter |-> ctr - 1, panic |-> FuseBlown(ctr - 1)]

\* The calls observed after cmd := m.Init() alone, without the m.View() after it.
AfterInitWithoutView(o) == [o EXCEPT !.inits = @ + 1]

\* The calls observed after cmd := m.Init(); m.View().
AfterInit(o) == [o EXCEPT !.inits = @ + 1, !.views = @ + 1]

\* runSnapshot with the error of Run dropped.
RunFailedIgnored(err) == FALSE

\* runSnapshot: if err := snapshot.Run(m.View()); err != nil { panic(err) }
RunFailed(err) == err # "nil"

\* The index runSnapshot is called with after group i (0-based), taken as i.
SnapshotIndexSame(i) == i

\* The index runSnapshot is called with after group i (0-based): i + 1.
SnapshotIndex(i) == i + 1

\* Nothing observed yet.
NoObs == [inits |-> 0, views |-> 0, updates |-> 0, nilUpdates |-> 0,
          delivered |-> << >>, snaps |-> << >>, panic |-> "none"]

\* The replay is not running (store specification).
ReplayIdle ==
    /\ pc = "idle" /\ seriesID = << >> /\ rverify = FALSE /\ groups = << >>
    /\ gi = -1 /\ ei = 0 /\ m = Component(0, "cmd", FALSE) /\ cmd = NilCmd
    /\ msg = NilMsg /\ counter = 0 /\ iter = 0 /\ obs = NoObs

\* No call of a Set method or of a function without state yet.
NoCall == [fn |-> "none"]

\* No Set is under test and no function without state was called.
ToolsIdle == set = << >> /\ ret = NoCall /\ dirs = {} /\ procs = << >>

Init ==
    /\ fs \in InitialFileSystems
    /\ snapshot = NoSnapshot
    /\ last = NoRun
    /\ prev = NoPrev
    /\ ReplayIdle
    /\ ToolsIdle

\* A test creates a Snapshot: suite.NewSnapshot(name, verify, equal).
NewSnapshotCall ==
    /\ \E name \in TestNames, verify \in BOOLEAN :
          snapshot' = NewSnapshot(rootDir, name, verify)
    /\ UNCHANGED <<fs, last, prev>>
    /\ UNCHANGED replayVars
    /\ UNCHANGED toolVars

\* A test calls snapshot.Run(view); the environment picks the outcome of the
\* read and of a write.
RunCall ==
    /\ snapshot.live
    /\ \E view \in Views, rfault \in ReadFaults :
          \E w \in WriteOutcomes(view) :
             LET r == Run(snapshot, view, fs, rfault, w)
             IN  /\ fs' = r.fs
                 /\ last' = RunRecord(snapshot, view, fs, rfault, r)
                 /\ prev' = Recorded(last)
    /\ UNCHANGED snapshot
    /\ UNCHANGED replayVars
    /\ UNCHANGED toolVars

Next == NewSnapshotCall \/ RunCall

Spec == Init /\ [][Next]_vars

-----------------------------------------------------------------------------
(* runUpdates, step by step.                                               *)

\* runUpdates' first statements: m, cmd = m.Update(msg); counter := 100.
Update ==
    /\ pc = "update"
    /\ LET u == ModelUpdate(m, msg)
       IN  /\ m' = u.model
           /\ cmd' = u.cmd
           /\ obs' = [obs EXCEPT !.updates = @ + 1]
    /\ counter' = FuseLimit
    /\ iter' = 0
    /\ pc' = "loop"
    /\ UNCHANGED <<seriesID, rverify, groups, gi, ei, msg>>
    /\ UNCHANGED storeVars
    /\ UNCHANGED <<prev, toolVars>>

\* One iteration of runUpdates' loop (cmd != nil).
Iterate ==
    /\ pc = "loop"
    /\ cmd # NilCmd
    /\ LET b == LoopBody(m, cmd, counter)
       IN  /\ m' = b.model
           /\ cmd' = b.cmd
           /\ counter' = b.counter
           /\ pc' = IF b.panic THEN "panic" ELSE "loop"
           /\ obs' = [obs EXCEPT !.updates = @ + 1,
                                 !.nilUpdates = @ + (IF Force(cmd) = NilMsg THEN 1 ELSE 0),
                                 !.panic = IF b.panic THEN "fuse" ELSE @]
    /\ iter' = iter + 1
    /\ UNCHANGED <<seriesID, rverify, groups, gi, ei, msg>>
    /\ UNCHANGED storeVars
    /\ UNCHANGED <<prev, toolVars>>

\* runUpdates returns m (cmd == nil).
Return ==
    /\ pc = "loop"
    /\ cmd = NilCmd
    /\ pc' = "returned"
    /\ UNCHANGED <<seriesID, rverify, groups, gi, ei, m, cmd, msg, counter, iter, obs>>
    /\ UNCHANGED storeVars
    /\ UNCHANGED <<prev, toolVars>>

-----------------------------------------------------------------------------
(* The settle specification: runUpdates alone, on every component and       *)
(* message of the bounds.                                                  *)

\* The tokens whose key messages runUpdates is handed.
SettleTokens == {<<"e", "n", "t", "e", "r">>, <<"a">>, << >>}

\* What RunBubbleTeaSnapshots hands to runUpdates: the effect Init returned
\* (nil or not) or the key message of a token.
SettleMessages ==
    {createKey(tok) : tok \in SettleTokens}
    \cup {[kind |-> "cmdAsMsg", cmd |-> c] : c \in {NilCmd, [kind |-> "cmd", yields |-> FollowMsg]}}

SettleComponents ==
    {Component(k, "cmd", FALSE) : k \in 0..(FuseLimit + MaxOver)}
    \cup {Component(k, "msg", FALSE) : k \in 1..(FuseLimit + MaxOver)}
    \cup {Component(Eternal, "cmd", FALSE)}

InitSettle ==
    /\ fs = << >> /\ snapshot = NoSnapshot /\ last = NoRun /\ prev = NoPrev
    /\ ToolsIdle
    /\ pc = "update"
    /\ seriesID = << >> /\ rverify = FALSE /\ groups = << >> /\ gi = -1 /\ ei = 0
    /\ m \in SettleComponents
    /\ msg \in SettleMessages
    /\ cmd = NilCmd /\ counter = 0 /\ iter = 0 /\ obs = NoObs

NextSettle == Update \/ Iterate \/ Return

\* The loop is plain sequential code: it keeps running while it can.
SettleSpec == InitSettle /\ [][NextSettle]_vars /\ WF_vars(NextSettle)

-----------------------------------------------------------------------------
(* The replay specification: RunBubbleTeaSnapshots.                        *)

\* The series ids of the replays: "r", and "r " with a character that is not safe.
SeriesIDs == {<<"r">>, <<"r", " ">>}

\* The lines script files are made of: "up,a", " tab", "#c" and "".
ScriptLines == {<<"u", "p", ",", "a">>, <<" ", "t", "a", "b">>, <<"#", "c">>, << >>}
ScriptFiles == {JoinLines(ls) : ls \in SeqsUpTo(ScriptLines, MaxLines)}

\* The snapshot files of series id a replay starts from: none, or every one
\* holding the baseline "1".
BaselineFileSystems(id) ==
    {<< >>, [p \in {deriveSnapshotFilep(rootDir, SnapshotName(id, i)) : i \in 0..MaxLines}
              |-> <<"1">>]}

\* The file systems a replay of series id starts from: the snapshot files,
\* with or without a script file.
ReplayFileSystems(id) ==
    UNION {{base} \cup {Store(base, ScriptPath(rootDir, id), f) : f \in ScriptFiles}
           : base \in BaselineFileSystems(id)}

ReplayComponents ==
    {Component(k, "cmd", b) : k \in 0..MaxChain, b \in BOOLEAN}
    \cup {Component(k, "msg", b) : k \in 1..MaxChain, b \in BOOLEAN}
    \cup {Component(Eternal, "cmd", b) : b \in BOOLEAN}
    \cup {Component(Eternal, "keys", FALSE)}

InitReplay ==
    /\ seriesID \in SeriesIDs
    /\ fs \in ReplayFileSystems(seriesID)
    /\ snapshot = NoSnapshot /\ last = NoRun /\ prev = NoPrev
    /\ ToolsIdle
    /\ pc = "load"
    /\ rverify \in BOOLEAN
    /\ groups = << >> /\ gi = -1 /\ ei = 0
    /\ m \in ReplayComponents
    /\ msg = NilMsg /\ cmd = NilCmd /\ counter = 0 /\ iter = 0 /\ obs = NoObs

\* messageGroups := readMessageGroups(snapshotSuite.rootDir, seriesID)
LoadScript ==
    /\ pc = "load"
    /\ \E rfault \in ReadFaults :
          LET r == readMessageGroups(fs, rootDir, seriesID, rfault)
          IN  /\ groups' = r.groups
              /\ pc' = IF r.err = "nil" THEN "init" ELSE "panic"
              /\ obs' = [obs EXCEPT !.panic = IF r.err = "nil" THEN @ ELSE "script"]
    /\ UNCHANGED <<seriesID, rverify, gi, ei, m, cmd, msg, counter, iter>>
    /\ UNCHANGED storeVars
    /\ UNCHANGED <<prev, toolVars>>

\* cmd := m.Init(); m.View(); and the call runUpdates(m, cmd).
InitCall ==
    /\ pc = "init"
    /\ msg' = [kind |-> "cmdAsMsg", cmd |-> ModelInit(m)]
    /\ obs' = AfterInit(obs)
    /\ pc' = "update"
    /\ UNCHANGED <<seriesID, rverify, groups, gi, ei, m, cmd, counter, iter>>
    /\ UNCHANGED storeVars
    /\ UNCHANGED <<prev, toolVars>>

\* The inner loop: the call runUpdates(m, createKey(each)) for the next event.
NextEvent ==
    /\ pc \in {"returned", "event"}
    /\ gi >= 0
    /\ ei < Len(groups[gi + 1])
    /\ ei' = ei + 1
    /\ msg' = createKey(groups[gi + 1][ei + 1])
    /\ obs' = [obs EXCEPT !.delivered =
                  Append(@, [key |-> createKey(groups[gi + 1][ei + 1]), group |-> gi,
                             settled |-> (cmd = NilCmd), snaps |-> Len(obs.snaps),
                             updates |-> obs.updates, n |-> m.n])]
    /\ pc' = "update"
    /\ UNCHANGED <<seriesID, rverify, groups, gi, m, cmd, counter, iter>>
    /\ UNCHANGED storeVars
    /\ UNCHANGED <<prev, toolVars>>

\* runSnapshot(0) after the init settlement, runSnapshot(i + 1) after group i.
TakeSnapshot ==
    /\ pc \in {"returned", "event"}
    /\ gi >= 0 => ei = Len(groups[gi + 1])
    /\ \E rfault \in ReadFaults :
          \E w \in WriteOutcomes(ModelView(m)) :
             LET i == IF gi = -1 THEN 0 ELSE SnapshotIndex(gi)
                 s == NewSnapshot(rootDir, SnapshotName(seriesID, i), rverify)
                 r == Run(s, ModelView(m), fs, rfault, w)
             IN  /\ fs' = r.fs
                 /\ pc' = IF RunFailed(r.err) THEN "panic" ELSE "group"
                 /\ obs' = [obs EXCEPT
                       !.views = @ + 1,
                       !.panic = IF RunFailed(r.err) THEN "store" ELSE @,
                       !.snaps = Append(@, [name |-> s.Name, i |-> i, view |-> ModelView(m),
                                            delivered |-> Len(obs.delivered),
                                            settled |-> (cmd = NilCmd),
                                            updates |-> obs.updates,
                                            err |-> r.err, equal |-> r.equal,
                                            writes |-> r.writes])]
    /\ UNCHANGED <<seriesID, rverify, groups, gi, ei, m, cmd, msg, counter, iter>>
    /\ UNCHANGED <<snapshot, last>>
    /\ UNCHANGED <<prev, toolVars>>

\* The head of the group loop: the next group, or the end of the replay.
NextGroup ==
    /\ pc = "group"
    /\ IF gi + 1 < Len(groups)
       THEN gi' = gi + 1 /\ ei' = 0 /\ pc' = "event"
       ELSE pc' = "done" /\ UNCHANGED <<gi, ei>>
    /\ UNCHANGED <<seriesID, rverify, groups, m, cmd, msg, counter, iter, obs>>
    /\ UNCHANGED storeVars
    /\ UNCHANGED <<prev, toolVars>>

NextReplay ==
    \/ LoadScript \/ InitCall \/ Update \/ Iterate \/ Return
    \/ NextEvent \/ TakeSnapshot \/ NextGroup

ReplaySpec == InitReplay /\ [][NextReplay]_vars

-----------------------------------------------------------------------------
(* Claims about the snapshot store, checked under Spec.                    *)

\* The path, the stored content before and the content after the latest Run.
LastPath == last.s.filep
LastStored == ContentOf(last.pre, LastPath)
LastContent == ContentOf(fs, LastPath)

\* C1 (bootstrap): a Run(v) with verify = false that returns no error leaves
\* the file content (an absent file read as empty) equal to v, whatever the
\* file held before, and does not invoke the compare function.
C1_Bootstrap ==
    (last.ran /\ ~last.s.verify /\ last.err = "nil")
        => (LastContent = last.view /\ last.equal = << >>)

\* C1's case: a non-verifying Run replaced different, non-empty content.
C1_Witness ==
    /\ last.ran /\ ~last.s.verify /\ last.err = "nil"
    /\ LastStored # << >> /\ LastStored # last.view /\ LastContent = last.view

\* C2 as stated: with non-empty stored content c and verify = true, every
\* Run(v) leaves the file system unchanged, issues no write and invokes
\* compare exactly once, as compare(c, v, name).
C2_Original ==
    (last.ran /\ last.s.verify /\ LastStored # << >>)
        => /\ fs = last.pre /\ last.writes = 0
           /\ last.equal = <<[expected |-> LastStored, actual |-> last.view,
                              message |-> last.s.Name]>>

\* C2 (amended): with non-empty stored content c and verify = true, every
\* Run(v) leaves the file system unchanged and issues no write; when its read
\* of the file succeeds it invokes compare exactly once, as compare(c, v,
\* name) (so with unequal arguments only when v differs from c), and when the
\* read fails it does not invoke compare.
C2_SteadyStateVerify ==
    (last.ran /\ last.s.verify /\ LastStored # << >>)
        => /\ fs = last.pre /\ last.writes = 0
           /\ last.rfault = "ok" =>
                 last.equal = <<[expected |-> LastStored, actual |-> last.view,
                                 message |-> last.s.Name]>>
           /\ last.rfault # "ok" => last.equal = << >>

\* C2's case: a verifying Run compared a view that differs from the content.
C2_Witness ==
    /\ last.ran /\ last.s.verify /\ LastStored # << >> /\ last.rfault = "ok"
    /\ last.view # LastStored /\ Len(last.equal) = 1 /\ fs = last.pre

\* C3 as stated: with verify = true and the file absent or empty, Run(v) does
\* not invoke compare and leaves the file content equal to v.
C3_Original ==
    (last.ran /\ last.s.verify /\ LastStored = << >>)
        => (last.equal = << >> /\ LastContent = last.view)

\* C3 (amended): with verify = true and the file absent or empty, Run(v) does
\* not invoke compare, and when it returns no error the file content equals v.
C3_FirstRunUnderVerify ==
    (last.ran /\ last.s.verify /\ LastStored = << >>)
        => /\ last.equal = << >>
           /\ last.err = "nil" => LastContent = last.view

\* C3's case: a verifying Run recorded a non-empty view in an absent file.
C3_Witness ==
    /\ last.ran /\ last.s.verify /\ LastPath \notin DOMAIN last.pre
    /\ last.view # << >> /\ last.err = "nil" /\ LastContent = last.view
    /\ last.writes = 1

\* C4 as stated: a step that changes the content of an existing snapshot
\* file (content possibly empty) is a Run with verify = false.
C4_Original ==
    [][\A p \in DOMAIN fs : fs'[p] # fs[p] => ~snapshot.verify]_vars

\* C4 (amended): a step that changes the content of a snapshot file holding
\* non-empty content is a Run with verify = false; a Run with verify = true
\* never overwrites a non-empty snapshot file (it does write to an existing
\* empty one).
C4_VerifyNeverOverwrites ==
    [][\A p \in DOMAIN fs : (fs[p] # << >> /\ fs'[p] # fs[p]) => ~snapshot.verify]_vars

\* C4's case: a Run changed the non-empty content of an existing file.
C4_Witness ==
    /\ last.ran /\ LastPath \in DOMAIN last.pre /\ LastStored # << >>
    /\ LastContent # LastStored /\ ~last.s.verify

\* C5: Run returns an error only on a file system failure, and then that
\* failure's error: a compare invocation (mismatch or not) never comes with an
\* error; a missing file is read as empty content, not an error; a read that
\* fails otherwise returns its error without invoking compare or writing.
C5_ErrorsOnlyFromFileSystem ==
    last.ran =>
        /\ last.err # "nil" =>
              \/ last.rfault # "ok" /\ last.err = last.rfault
              \/ last.rfault = "ok" /\ last.writes = 1 /\ last.w.err # "nil"
                    /\ last.err = last.w.err
        /\ last.equal # << >> => last.err = "nil"
        /\ (LastPath \notin DOMAIN last.pre /\ last.rfault = "ok") =>
              /\ last.equal = << >>
              /\ last.writes = (IF last.view = << >> THEN 0 ELSE 1)
              /\ last.writes = 0 => last.err = "nil"
        /\ last.rfault # "ok" =>
              /\ last.err = last.rfault /\ last.equal = << >>
              /\ last.writes = 0 /\ fs = last.pre

\* C5's case: a verifying Run on non-empty content whose read failed.
C5_Witness ==
    /\ last.ran /\ last.rfault # "ok" /\ last.s.verify /\ LastStored # << >>
    /\ last.err = last.rfault

-----------------------------------------------------------------------------
(* Claims about the replay, checked under ReplaySpec.                      *)

RECURSIVE EventsBefore(_)
\* The number of events in the first g groups of the script.
EventsBefore(g) == IF g = 0 THEN 0 ELSE EventsBefore(g - 1) + Len(groups[g])

RECURSIVE Flatten(_)
\* The tokens of the groups gs, in script order.
Flatten(gs) == IF gs = << >> THEN << >> ELSE gs[1] \o Flatten(Drop(gs, 1))

\* A compare invocation with unequal arguments.
Mismatch(e) == e.expected # e.actual

\* C6: the k-th snapshot run has index k - 1 and the name runID_00<k-1>
\* (indices below 10), and a replay that ends without a store failure or a
\* fuse has run exactly n + 1 snapshots for a script of n groups, in either
\* verify mode and whatever compare was given; an empty script yields
\* exactly snapshot 0.
C6_SnapshotsPerGroup ==
    /\ \A k \in 1..Len(obs.snaps) :
          /\ obs.snaps[k].i = k - 1
          /\ obs.snaps[k].name = seriesID \o <<"_", "0", "0", Digits[k]>>
    /\ pc = "done" => Len(obs.snaps) = Len(groups) + 1

\* C6's case: a verifying replay of a script of two groups ended after a
\* compare with unequal arguments.
C6_Witness ==
    /\ pc = "done" /\ rverify /\ Len(groups) = 2 /\ Len(obs.snaps) = 3
    /\ \E k \in 1..Len(obs.snaps) :
          obs.snaps[k].equal # << >> /\ Mismatch(obs.snaps[k].equal[1])

\* C7: snapshot i is taken when exactly the events of the first i groups
\* have been delivered (snapshot 0 before any), with no effect pending; the
\* events are delivered in script order, each when the effects of the one
\* before are settled and when exactly the snapshots up to its group's have
\* been taken; each update is received by the component value the update
\* before returned, and the view snapshotted is that of the value the latest
\* update returned.
C7_ReplayOrdering ==
    /\ \A k \in 1..Len(obs.snaps) :
          LET s == obs.snaps[k]
          IN  /\ s.settled
              /\ s.delivered = EventsBefore(s.i)
              /\ s.view = Decimal(s.updates)
    /\ \A j \in 1..Len(obs.delivered) :
          LET d == obs.delivered[j]
          IN  /\ d.key = createKey(Flatten(groups)[j])
              /\ d.settled
              /\ d.snaps = d.group + 1
              /\ EventsBefore(d.group) < j /\ j <= EventsBefore(d.group + 1)
              /\ d.n = d.updates
    /\ m.n = obs.updates

\* C7's case: a replay of a script whose first group has two events ended,
\* the component answering each event with a chain of two effects.
C7_Witness ==
    /\ pc = "done" /\ Len(groups) = 2 /\ Len(groups[1]) = 2 /\ m.chain = 2
    /\ Len(obs.snaps) = 3 /\ Len(obs.delivered) = 3

-----------------------------------------------------------------------------
(* Claims about settling, checked under SettleSpec.                        *)

\* C8: for a component whose every update returns a further effect,
\* settling ends, and it ends in the fuse, which triggers in iteration 100 of
\* the loop: not before, not after; runUpdates never returns.
C8_FuseAtHundred ==
    /\ [](m.chain = Eternal =>
            /\ iter <= FuseLimit
            /\ pc # "returned"
            /\ pc = "panic" <=> iter = FuseLimit
            /\ pc = "panic" => obs.panic = "fuse")
    /\ (m.chain = Eternal) ~> (pc = "panic")

\* C8's case: the fuse triggered on a component whose chain never ends.
C8_Witness ==
    m.chain = Eternal /\ pc = "panic" /\ obs.panic = "fuse" /\ iter = FuseLimit

\* C9 as stated: a component whose chain after a delivered message has k
\* follow-up effects, 0 <= k <= 100, and then no further effect settles
\* without the fuse.
C9_Original ==
    (m.chain \in 0..FuseLimit /\ m.tail = "cmd") => pc # "panic"

\* C9, for the chains of at most 99 follow-up effects: the fuse does not
\* trigger, and runUpdates returns the settled component.
C9_UpToNinetyNine ==
    /\ []((m.chain \in 0..(FuseLimit - 1) /\ m.tail = "cmd") => pc # "panic")
    /\ (m.chain \in 0..(FuseLimit - 1) /\ m.tail = "cmd")
          ~> (pc = "returned" /\ cmd = NilCmd /\ m.n = m.chain + 1)

\* C10 as stated: update is never called with the no-event value of a forced
\* effect.
C10_Original == obs.nilUpdates = 0

-----------------------------------------------------------------------------
(* Claims about the start and the abort of a replay, checked under         *)
(* ReplaySpec.                                                             *)

\* C11 as stated: update is called before snapshot 0 only when init returned
\* an effect, and what the first update receives is then the event forced
\* from that effect, never the effect itself.
C11_Original ==
    (obs.snaps = << >> /\ obs.updates >= 1) =>
        (m.initCmd /\ msg = Force(ModelInit(m)) /\ msg.kind # "cmdAsMsg")

\* C12 as stated: every snapshot name handed to the store is the sanitized
\* "{runID}_{i:03d}" and is made of safe characters only, whatever the run id.
C12_Original ==
    \A k \in 1..Len(obs.snaps) :
        /\ obs.snaps[k].name = ToSafeFilename(SnapshotName(seriesID, obs.snaps[k].i))
        /\ \A j \in 1..Len(obs.snaps[k].name) : obs.snaps[k].name[j] \in SafeChars

\* C13: when the script file rootDir/runID.txt cannot be read (it does not
\* exist, or reading it fails), the replay aborts at once: init, update and
\* view are never called, no event is delivered, and no snapshot is taken, so
\* that no snapshot file is read or written.
C13_ScriptUnreadable ==
    /\ []((pc # "load" /\ ScriptPath(rootDir, seriesID) \notin DOMAIN fs) =>
            obs.panic = "script")
    /\ [](obs.panic = "script" =>
            /\ pc = "panic"
            /\ obs.inits = 0 /\ obs.updates = 0 /\ obs.views = 0
            /\ obs.delivered = << >> /\ obs.snaps = << >>
            /\ m.n = 0)
    /\ [][obs'.panic = "script" => fs' = fs]_vars

\* C13's case: the replay of a series without a script file aborted, the
\* baseline snapshot files of the series being there.
C13_Witness ==
    /\ pc = "panic" /\ obs.panic = "script"
    /\ ScriptPath(rootDir, seriesID) \notin DOMAIN fs
    /\ deriveSnapshotFilep(rootDir, SnapshotName(seriesID, 0)) \in DOMAIN fs

\* C14: when the store's Run for snapshot i returns an error, the replay
\* aborts: that snapshot is the last one taken, and no script event is
\* delivered and no update made after it.
C14_StoreErrorAborts ==
    \A k \in 1..Len(obs.snaps) :
        obs.snaps[k].err # "nil" =>
            /\ pc = "panic" /\ obs.panic = "store"
            /\ k = Len(obs.snaps) /\ obs.snaps[k].i = k - 1
            /\ Len(obs.delivered) = obs.snaps[k].delivered
            /\ obs.updates = obs.snaps[k].updates

\* C14's case: Run failed for snapshot 1 of a script of two groups, the
\* second group still to be replayed.
C14_Witness ==
    /\ pc = "panic" /\ obs.panic = "store"
    /\ Len(groups) = 2 /\ Len(obs.snaps) = 2
    /\ obs.snaps[1].err = "nil" /\ obs.snaps[2].err # "nil"

-----------------------------------------------------------------------------
(* The parse specification: readMessageGroups alone, on every short script *)
(* file over the characters that matter to it, and on the script           *)
(* "a,b\n# comment\n\nc".                                                  *)

ParseChars == {"a", ",", "\n", "#", "/", " "}

ExampleScript ==
    <<"a", ",", "b", "\n", "#", " ", "c", "o", "m", "m", "e", "n", "t", "\n", "\n", "c">>

ParseFiles == SeqsUpTo(ParseChars, MaxFileLen) \cup {ExampleScript}

InitParse ==
    /\ seriesID = <<"r">>
    /\ \E f \in ParseFiles : fs = Store(<< >>, ScriptPath(rootDir, seriesID), f)
    /\ snapshot = NoSnapshot /\ last = NoRun /\ prev = NoPrev
    /\ ToolsIdle
    /\ pc = "load"
    /\ rverify = FALSE /\ groups = << >> /\ gi = -1 /\ ei = 0
    /\ m = Component(0, "cmd", FALSE)
    /\ msg = NilMsg /\ cmd = NilCmd /\ counter = 0 /\ iter = 0 /\ obs = NoObs

NextParse == LoadScript

ParseSpec == InitParse /\ [][NextParse]_vars

-----------------------------------------------------------------------------
(* Claims about the script, checked under ParseSpec.                       *)

\* The positions of separator sep in s.
SepPositions(s, sep) == {k \in 1..Len(s) : s[k] = sep}

\* The position of the j-th occurrence of sep in s; 0 stands before the
\* first piece and Len(s) + 1 ends the last one.
SepAt(s, sep, j) ==
    IF j = 0 THEN 0
    ELSE IF j > Cardinality(SepPositions(s, sep)) THEN Len(s) + 1
    ELSE CHOOSE k \in SepPositions(s, sep) :
            Cardinality({x \in SepPositions(s, sep) : x < k}) = j - 1

\* The pieces of s between the occurrences of sep, in order.
Pieces(s, sep) ==
    [j \in 1..(Cardinality(SepPositions(s, sep)) + 1) |->
        SubSeq(s, SepAt(s, sep, j - 1) + 1, SepAt(s, sep, j) - 1)]

\* s from its first to its last character that is not white space.
Trimmed(s) ==
    LET ink == {k \in 1..Len(s) : s[k] \notin Space}
    IN  IF ink = {} THEN << >>
        ELSE SubSeq(s, CHOOSE k \in ink : \A j \in ink : k <= j,
                       CHOOSE k \in ink : \A j \in ink : k >= j)

\* The trimmed line t makes a group: it is not empty and not a comment.
IsScriptLine(t) ==
    /\ t # << >>
    /\ t[1] # "#"
    /\ ~(Len(t) >= 2 /\ t[1] = "/" /\ t[2] = "/")

\* The groups the claim describes for script file f.
ExpectedGroups(f) ==
    LET lines == Pieces(f, "\n")
        kept == {j \in 1..Len(lines) : IsScriptLine(Trimmed(lines[j]))}
        nth(k) == CHOOSE j \in kept : Cardinality({x \in kept : x < j}) = k - 1
    IN  [k \in 1..Cardinality(kept) |-> Pieces(Trimmed(lines[nth(k)]), ",")]

\* C15: a readable script yields exactly one group per line that is not
\* empty after trimming and does not begin with "#" or "//", in file order,
\* each group the ordered list of the comma-separated tokens of the trimmed
\* line; "a,b\n# comment\n\nc" yields exactly [a, b] and [c].
C15_ScriptParsing ==
    pc = "init" =>
        LET f == fs[ScriptPath(rootDir, seriesID)]
        IN  /\ groups = ExpectedGroups(f)
            /\ f = ExampleScript => groups = << <<<<"a">>, <<"b">>>>, <<<<"c">>>> >>

\* C15's case: the example script was parsed.
C15_Witness ==
    /\ pc = "init"
    /\ fs[ScriptPath(rootDir, seriesID)] = ExampleScript
    /\ Len(groups) = 2

-----------------------------------------------------------------------------
(* The decode specification: the replay at the first event of a script of  *)
(* one token, for the reserved tokens, their variants and every short      *)
(* token over a few characters.                                            *)

ReservedTokens ==
    {<<"e", "n", "t", "e", "r">>, <<"t", "a", "b">>, <<"e", "s", "c">>, <<"u", "p">>,
     <<"d", "o", "w", "n">>}

DecodeChars == {"u", "p", "U", " ", InvalidByte}

DecodeTokens ==
    ReservedTokens
    \cup {<<"E", "n", "t", "e", "r">>, <<"E", "N", "T", "E", "R">>, <<"e", "n", "t", "e", "r", " ">>,
          <<"e", "n", "t", "e">>, <<"T", "a", "b">>, <<"e", "s", "c", "a", "p", "e">>}
    \cup SeqsUpTo(DecodeChars, MaxTokenLen)

InitDecode ==
    /\ fs = << >> /\ snapshot = NoSnapshot /\ last = NoRun /\ prev = NoPrev
    /\ ToolsIdle
    /\ pc = "event"
    /\ seriesID = <<"r">> /\ rverify = FALSE
    /\ \E t \in DecodeTokens : groups = << <<t>> >>
    /\ gi = 0 /\ ei = 0
    /\ m = Component(0, "cmd", FALSE)
    /\ msg = NilMsg /\ cmd = NilCmd /\ counter = 0 /\ iter = 0 /\ obs = NoObs

NextDecode == NextEvent

DecodeSpec == InitDecode /\ [][NextDecode]_vars

\* C16 as stated: every token decodes to one key event: exactly "enter",
\* "tab", "esc", "up" and "down", as written, to the control events Enter,
\* Tab, Escape, Up and Down, and any other token, the empty one and "Enter"
\* included, to one literal-text event carrying the token's characters
\* unchanged.
C16_Original ==
    pc = "update" =>
        LET t == groups[1][1]
        IN  /\ msg.kind = "key"
            /\ t \in ReservedTokens <=> msg.Type # "KeyRunes"
            /\ msg.Type = "KeyRunes" => msg.Runes = t

\* C16: every token decodes to one key event: exactly "enter", "tab", "esc",
\* "up" and "down", as written, to the control events Enter, Tab, Escape, Up
\* and Down, and any other token, the empty one and "Enter" included, to one
\* literal-text event of as many characters as the token has, carrying each
\* character of the token unchanged and U+FFFD in the place of each byte
\* that is not valid UTF-8.
C16_EventDecoding ==
    /\ pc = "event" => ENABLED NextEvent
    /\ pc = "update" =>
          LET t == groups[1][1]
          IN  /\ Len(obs.delivered) = 1 /\ obs.delivered[1].key = msg
              /\ msg.kind = "key"
              /\ t = <<"e", "n", "t", "e", "r">> <=> msg.Type = "KeyEnter"
              /\ t = <<"t", "a", "b">> <=> msg.Type = "KeyTab"
              /\ t = <<"e", "s", "c">> <=> msg.Type = "KeyEsc"
              /\ t = <<"u", "p">> <=> msg.Type = "KeyUp"
              /\ t = <<"d", "o", "w", "n">> <=> msg.Type = "KeyDown"
              /\ t \notin ReservedTokens <=> msg.Type = "KeyRunes"
              /\ msg.Type # "KeyRunes" => msg.Runes = << >>
              /\ msg.Type = "KeyRunes" =>
                    /\ Len(msg.Runes) = Len(t)
                    /\ \A k \in 1..Len(t) :
                          msg.Runes[k] = IF t[k] = InvalidByte THEN ReplacementChar ELSE t[k]
                    /\ (\A k \in 1..Len(t) : t[k] # InvalidByte) => msg.Runes = t

\* C16's case: the token "Enter" was decoded, to literal text.
C16_Witness ==
    /\ pc = "update"
    /\ groups[1][1] = <<"E", "n", "t", "e", "r">>
    /\ msg.Type = "KeyRunes" /\ msg.Runes = <<"E", "n", "t", "e", "r">>

-----------------------------------------------------------------------------
(* The sanitize specification: ToSafeFilename applied to a name, and then  *)
(* to its own result.  ret holds the name the caller started from (orig),  *)
(* the argument and the result of the latest call, and the number of calls.*)

\* The characters of the names: safe ones (a letter, the three safe marks)
\* and others (a space, a path separator, a byte that is not valid UTF-8).
NameChars == {"a", "-", ".", "_", " ", "/", InvalidByte}

Names == SeqsUpTo(NameChars, MaxNameLen)

InitSanitize ==
    /\ fs = << >> /\ snapshot = NoSnapshot /\ last = NoRun /\ prev = NoPrev
    /\ ReplayIdle
    /\ set = << >> /\ dirs = {} /\ procs = << >>
    /\ \E x \in Names : ret = [fn |-> "none", orig |-> x, arg |-> x, res |-> x, calls |-> 0]

\* ToSafeFilename(s), s being the name in hand: the original name first,
\* then the result of the call before.
SanitizeCall ==
    /\ ret.calls < 2
    /\ ret' = [fn |-> "ToSafeFilename", orig |-> ret.orig, arg |-> ret.res,
               res |-> ToSafeFilename(ret.res), calls |-> ret.calls + 1]
    /\ UNCHANGED <<storeVars, prev, replayVars, set, dirs, procs>>

NextSanitize == SanitizeCall

SanitizeSpec == InitSanitize /\ [][NextSanitize]_vars

\* C17: ToSafeFilename(s) has as many characters as s, all of them safe; it
\* has the character of s wherever that one is safe, and an underscore
\* wherever it is not: the positions it changes are exactly the positions
\* of the unsafe characters of s, one underscore for each.
C17_SanitizeShape ==
    ret.calls >= 1 =>
        /\ Len(ret.res) = Len(ret.arg)
        /\ \A k \in 1..Len(ret.res) :
              /\ ret.res[k] \in SafeChars
              /\ ret.arg[k] \in SafeChars => ret.res[k] = ret.arg[k]
              /\ ret.arg[k] \notin SafeChars => ret.res[k] = "_"
        /\ {k \in 1..Len(ret.arg) : ret.res[k] # ret.arg[k]}
              = {k \in 1..Len(ret.arg) : ret.arg[k] \notin SafeChars}

\* C17's case: "a /" was sanitized, to "a__".
C17_Witness ==
    /\ ret.calls = 1 /\ ret.fn = "ToSafeFilename"
    /\ ret.arg = <<"a", " ", "/">> /\ ret.res = <<"a", "_", "_">>

\* C18: ToSafeFilename applied to its own result returns it unchanged.
C18_SanitizeIdempotent ==
    ret.calls = 2 => ret.res = ret.arg

\* C18's case: the result of sanitizing "/ a", a name with two unsafe
\* characters, was sanitized again.
C18_Witness ==
    /\ ret.calls = 2 /\ ret.fn = "ToSafeFilename"
    /\ ret.orig = <<"/", " ", "a">> /\ ret.arg = <<"_", "_", "a">> /\ ret.res = ret.arg

-----------------------------------------------------------------------------
(* The round trip of the store, checked under Spec.                        *)

\* C19: after a Run(v) that records v (verify false, or verify true with no
\* snapshot file; no error), reading the snapshot back yields exactly v; and
\* the Run(v) that follows it on the same name with verify true calls equal
\* with equal arguments only, writes nothing and leaves the file equal to v.
C19_RecordThenVerify ==
    /\ Recorded(last).recorded =>
          read(fs, last.s.filep, "ok") = [content |-> last.view, err |-> "nil"]
    /\ (prev.recorded /\ last.ran /\ last.s.verify
          /\ last.s.Name = prev.Name /\ last.view = prev.view) =>
          /\ \A k \in 1..Len(last.equal) :
                /\ last.equal[k].expected = last.equal[k].actual
                /\ last.equal[k].expected = prev.view
          /\ last.writes = 0
          /\ fs = last.pre
          /\ ContentOf(fs, last.s.filep) = prev.view

\* C19's case: a view that is not empty was recorded and then verified by
\* the next Run on the same name, which called equal once.
C19_Witness ==
    /\ prev.recorded /\ prev.view # << >>
    /\ last.ran /\ last.s.verify /\ last.rfault = "ok"
    /\ last.s.Name = prev.Name /\ last.view = prev.view
    /\ Len(last.equal) = 1

-----------------------------------------------------------------------------
(* Set of src/gent.go.  The map m of a Set is a record: m, a function from *)
(* the keys that equal themselves to the stored value, and nan, the number *)
(* of entries whose key is a floating-point NaN (T is any comparable type; *)
(* a NaN key is never found by an index expression or by delete, so a map  *)
(* can hold several of them).                                              *)

NaN == "NaN"

\* The items of the set specification: two strings and a float64 NaN.
Items == {"m1", "o2", NaN}

\* map[T]bool{}
EmptyMap == [m |-> << >>, nan |-> 0]

\* _, ok := v.m[item]
KeyIn(mp, item) == item # NaN /\ item \in DOMAIN mp.m

\* v.m[item] = false, for an item the map does not find.
MapPut(mp, item) ==
    IF item = NaN THEN [mp EXCEPT !.nan = @ + 1]
    ELSE [mp EXCEPT !.m = [q \in DOMAIN @ \cup {item} |-> FALSE]]

\* delete(v.m, item)
MapDelete(mp, item) ==
    IF item = NaN THEN mp
    ELSE [mp EXCEPT !.m = [q \in DOMAIN @ \ {item} |-> FALSE]]

\* Set.Add reporting an addition whether the item existed or not.
SetAddAlwaysAdded(mp, item) ==
    IF KeyIn(mp, item) THEN [set |-> mp, ret |-> TRUE]
    ELSE [set |-> MapPut(mp, item), ret |-> TRUE]

\* Set.Add: the map it leaves and the value it returns.
SetAdd(mp, item) ==
    IF KeyIn(mp, item) THEN [set |-> mp, ret |-> FALSE]
    ELSE [set |-> MapPut(mp, item), ret |-> TRUE]

\* Set.Remove: the map it leaves and the value it returns.
SetRemove(mp, item) == [set |-> MapDelete(mp, item), ret |-> KeyIn(mp, item)]

\* Set.Clear
SetClear(mp) == EmptyMap

\* Set.Has
SetHas(mp, item) == KeyIn(mp, item)

\* Set.Contains
SetContains(mp, item) == SetHas(mp, item)

\* Set.Len: len(v.m)
SetLen(mp) == Cardinality(DOMAIN mp.m) + mp.nan

\* Set.Count: len(v.m)
SetCount(mp) == Cardinality(DOMAIN mp.m) + mp.nan

RECURSIVE NewSet(_)
\* NewSet(items...): Add for each item, in order.
NewSet(items) ==
    IF items = << >> THEN EmptyMap
    ELSE SetAdd(NewSet(Prefix(items, Len(items) - 1)), items[Len(items)]).set

\* The items of a sequence.
Range(items) == {items[k] : k \in 1..Len(items)}

(* The set specification: a Set made by NewSet, then any sequence of Add,  *)
(* Remove and Clear.  ret holds the latest call, its result, and the       *)
(* mathematical set the calls so far describe: before and after (members)  *)
(* the call; tainted tells that a NaN was added since the map was made.    *)

InitSet ==
    /\ fs = << >> /\ snapshot = NoSnapshot /\ last = NoRun /\ prev = NoPrev
    /\ ReplayIdle
    /\ dirs = {} /\ procs = << >>
    /\ \E items \in SeqsUpTo(Items, MaxItems) :
          /\ set = NewSet(items)
          /\ ret = [fn |-> "NewSet", arg |-> items, res |-> "none", before |-> {},
                    members |-> Range(items), tainted |-> (NaN \in Range(items))]

AddCall ==
    /\ \E x \in Items :
          /\ x = NaN => set.nan < MaxNaN
          /\ set' = SetAdd(set, x).set
          /\ ret' = [fn |-> "Add", arg |-> <<x>>, res |-> SetAdd(set, x).ret,
                     before |-> ret.members, members |-> ret.members \cup {x},
                     tainted |-> (ret.tainted \/ x = NaN)]
    /\ UNCHANGED <<storeVars, prev, replayVars, dirs, procs>>

RemoveCall ==
    /\ \E x \in Items :
          /\ set' = SetRemove(set, x).set
          /\ ret' = [fn |-> "Remove", arg |-> <<x>>, res |-> SetRemove(set, x).ret,
                     before |-> ret.members, members |-> ret.members \ {x},
                     tainted |-> ret.tainted]
    /\ UNCHANGED <<storeVars, prev, replayVars, dirs, procs>>

ClearCall ==
    /\ set' = SetClear(set)
    /\ ret' = [fn |-> "Clear", arg |-> << >>, res |-> "none", before |-> ret.members,
               members |-> {}, tainted |-> FALSE]
    /\ UNCHANGED <<storeVars, prev, replayVars, dirs, procs>>

NextSet == AddCall \/ RemoveCall \/ ClearCall

SetSpec == InitSet /\ [][NextSet]_vars

\* C20 as stated: under any sequence of Add, Remove and Clear the Set is the
\* mathematical set of the items added and not removed: for every item x,
\* Add(x) returns true iff x was absent, Remove(x) true iff x was present,
\* Has(x) and Contains(x) tell whether x is a member, Len and Count are the
\* number of distinct members, NewSet stores duplicates once, and Clear
\* leaves Len at 0.
C20_Original ==
    /\ ret.fn = "Add" => ret.res = (ret.arg[1] \notin ret.before)
    /\ ret.fn = "Remove" => ret.res = (ret.arg[1] \in ret.before)
    /\ \A x \in Items : SetHas(set, x) = (x \in ret.members)
    /\ \A x \in Items : SetContains(set, x) = (x \in ret.members)
    /\ SetLen(set) = Cardinality(ret.members)
    /\ SetCount(set) = Cardinality(ret.members)
    /\ ret.fn = "NewSet" => SetLen(set) = Cardinality(Range(ret.arg))
    /\ ret.fn = "Clear" => SetLen(set) = 0

\* C20, for the items that equal themselves: under any sequence of Add,
\* Remove and Clear, for every such item x, Add(x) returns true iff x was
\* absent, Remove(x) true iff x was present, Has(x) and Contains(x) tell
\* whether x is a member; Len equals Count; Clear leaves Len at 0; and as
\* long as no NaN was added since the map was made or cleared, Len and Count
\* are the number of distinct members and NewSet stored duplicates once.
C20_SetSemantics ==
    /\ (ret.fn = "Add" /\ ret.arg[1] # NaN) => ret.res = (ret.arg[1] \notin ret.before)
    /\ (ret.fn = "Remove" /\ ret.arg[1] # NaN) => ret.res = (ret.arg[1] \in ret.before)
    /\ \A x \in Items \ {NaN} : SetHas(set, x) = (x \in ret.members)
    /\ \A x \in Items \ {NaN} : SetContains(set, x) = (x \in ret.members)
    /\ SetLen(set) = SetCount(set)
    /\ ret.fn = "Clear" => SetLen(set) = 0
    /\ ~ret.tainted =>
          /\ SetLen(set) = Cardinality(ret.members)
          /\ SetCount(set) = Cardinality(ret.members)
          /\ ret.fn = "NewSet" => SetLen(set) = Cardinality(Range(ret.arg))

\* C20's case: an item was removed from a Set that held two, no NaN among
\* them, and the other one is left.
C20_Witness ==
    /\ ret.fn = "Remove" /\ ret.res = TRUE /\ ~ret.tainted
    /\ ret.before = {"m1", "o2"} /\ ret.members = {"m1"}
    /\ SetLen(set) = 1 /\ SetHas(set, "m1") /\ ~SetHas(set, "o2")

-----------------------------------------------------------------------------
(* AssertFs of package assfs: WriteTextFile, WriteLargeTextFile and         *)
(* doWriteTextFile.  The file system is fs (the files) and dirs (the        *)
(* directories); a failed assertion ends the test (require: FailNow).       *)

RECURSIVE BitXor(_, _)
\* Go's a ^ b on two ints that are not negative: the bitwise exclusive or.
BitXor(a, b) ==
    IF a = 0 /\ b = 0 THEN 0
    ELSE (((a % 2) + (b % 2)) % 2) + (2 * BitXor(a \div 2, b \div 2))

\* The argument n WriteLargeTextFile passes to doWriteTextFile: 1024^2.
LargePadding == BitXor(1024, 2)

\* strings.Repeat(c, n) for a string c of one character.
Repeat(c, n) == [k \in 1..n |-> c]

\* filepath.Dir of a clean relative path: the path without its last element,
\* "." when it has one element only.
Dir(filep) ==
    LET seps == {k \in 1..Len(filep) : filep[k] = "/"}
    IN  IF seps = {} THEN <<".">>
        ELSE Prefix(filep, (CHOOSE k \in seps : \A j \in seps : j <= k) - 1)

\* afero's MkdirAll(dirp): dirp and every directory above it exist afterwards.
MkdirAll(ds, dirp) ==
    ds \cup {dirp}
       \cup {Prefix(dirp, k - 1) : k \in {j \in 2..Len(dirp) : dirp[j] = "/"}}

\* What the file system can do to doWriteTextFile: nothing, fail MkdirAll,
\* or fail WriteFile.
FsOutcomes == {"ok", "mkdir", "write"}

\* doWriteTextFile: the files and directories it leaves, and whether an
\* assertion failed.
doWriteTextFile(fsys, ds, filep, content, n, outcome) ==
    IF outcome = "mkdir" THEN [fs |-> fsys, dirs |-> ds, failed |-> TRUE]
    ELSE IF outcome = "write"
    THEN [fs |-> fsys, dirs |-> MkdirAll(ds, Dir(filep)), failed |-> TRUE]
    ELSE [fs |-> Store(fsys, filep, content \o Repeat("0", n)),
          dirs |-> MkdirAll(ds, Dir(filep)), failed |-> FALSE]

\* AssertFs.WriteTextFile
WriteTextFile(fsys, ds, filep, content, outcome) ==
    doWriteTextFile(fsys, ds, filep, content, 0, outcome)

\* AssertFs.WriteLargeTextFile
WriteLargeTextFile(fsys, ds, filep, content, outcome) ==
    doWriteTextFile(fsys, ds, filep, content, LargePadding, outcome)

\* The paths written to: "f" and "d/e/f".
AssertPaths == {<<"f">>, <<"d", "/", "e", "/", "f">>}

InitAssertFs ==
    /\ fs = << >> /\ snapshot = NoSnapshot /\ last = NoRun /\ prev = NoPrev
    /\ ReplayIdle
    /\ set = << >> /\ dirs = {} /\ procs = << >>
    /\ ret = NoCall

WriteTextFileCall ==
    /\ \E filep \in AssertPaths, content \in Views, outcome \in FsOutcomes :
          LET r == WriteTextFile(fs, dirs, filep, content, outcome)
          IN  /\ fs' = r.fs
              /\ dirs' = r.dirs
              /\ ret' = [fn |-> "WriteTextFile", filep |-> filep, content |-> content,
                         failed |-> r.failed]
    /\ UNCHANGED <<snapshot, last, prev, replayVars, set, procs>>

WriteLargeTextFileCall ==
    /\ \E filep \in AssertPaths, content \in Views, outcome \in FsOutcomes :
          LET r == WriteLargeTextFile(fs, dirs, filep, content, outcome)
          IN  /\ fs' = r.fs
              /\ dirs' = r.dirs
              /\ ret' = [fn |-> "WriteLargeTextFile", filep |-> filep, content |-> content,
                         failed |-> r.failed]
    /\ UNCHANGED <<snapshot, last, prev, replayVars, set, procs>>

NextAssertFs == WriteTextFileCall \/ WriteLargeTextFileCall

AssertFsSpec == InitAssertFs /\ [][NextAssertFs]_vars

\* C21 as stated: WriteLargeTextFile creates the parent directories and
\* writes a file holding the content followed by 1024 * 1024 = 1048576
\* padding characters, so of length len(content) + 1048576.
C21_Original ==
    (ret.fn = "WriteLargeTextFile" /\ ~ret.failed) =>
        /\ Dir(ret.filep) \in dirs
        /\ Prefix(fs[ret.filep], Len(ret.content)) = ret.content
        /\ Len(fs[ret.filep]) = Len(ret.content) + (1024 * 1024)

\* What WriteLargeTextFile does write: the content followed by 1026 padding
\* characters, below the parent directories it created.
C21_AsCoded ==
    (ret.fn = "WriteLargeTextFile" /\ ~ret.failed) =>
        /\ MkdirAll({}, Dir(ret.filep)) \subseteq dirs
        /\ fs[ret.filep] = ret.content \o [k \in 1..1026 |-> "0"]

-----------------------------------------------------------------------------
(* More claims about the replay, checked under ReplaySpec.                 *)

\* C22: in every replay init is called once, before any update and any
\* view; view is called once between init and the first update, and then
\* once per snapshot taken, no snapshot being taken before the first update;
\* a replay of a script of n groups that ends without fuse or failure has
\* called view n + 2 times.
C22_InitAndViewCalls ==
    /\ obs.inits <= 1
    /\ obs.inits = 0 => (obs.updates = 0 /\ obs.views = 0 /\ obs.snaps = << >>)
    /\ (obs.inits = 1 /\ obs.updates = 0) => (obs.views = 1 /\ obs.snaps = << >>)
    /\ obs.inits = 1 => obs.views = 1 + Len(obs.snaps)
    /\ pc = "done" => (obs.inits = 1 /\ obs.views = Len(groups) + 2)

\* C22's case: the replay of a script of two groups ended; view was called
\* four times.
C22_Witness ==
    /\ pc = "done" /\ Len(groups) = 2 /\ obs.inits = 1 /\ obs.views = 4
    /\ Len(obs.delivered) >= 2

-----------------------------------------------------------------------------
(* More claims about the store, checked under Spec.                        *)

\* C23 as stated: in any mode, a Run whose view equals the stored content
\* (an absent file read as empty) issues no write and leaves the file system
\* as it was, an absent file absent; and the Run that follows a Run on the
\* same handle with the same view never writes.
C23_Original ==
    /\ []((last.ran /\ last.view = LastStored) => (last.writes = 0 /\ fs = last.pre))
    /\ [][(last.ran /\ last'.ran /\ last'.s = last.s /\ last'.view = last.view
              /\ snapshot' = snapshot)
            => last'.writes = 0]_vars

\* C23: in any mode, a Run whose view equals the stored content (an absent
\* file read as empty) issues no write and leaves the file system as it was,
\* an absent file absent; and the Run that follows a Run on the same handle
\* with the same view never writes when that earlier Run returned no error.
C23_WriteOnlyOnDivergence ==
    /\ []((last.ran /\ last.view = LastStored) => (last.writes = 0 /\ fs = last.pre))
    /\ [][(last.ran /\ last.err = "nil" /\ last'.ran /\ last'.s = last.s
              /\ last'.view = last.view /\ snapshot' = snapshot)
            => (last'.writes = 0 /\ fs' = fs)]_vars

\* C23's case: a Run without verify recorded a view that is not empty, and
\* the next Run, on the same name with the same view, read it and wrote
\* nothing.
C23_Witness ==
    /\ prev.recorded /\ prev.view # << >>
    /\ last.ran /\ ~last.s.verify /\ last.rfault = "ok"
    /\ last.s.Name = prev.Name /\ last.view = prev.view
    /\ last.writes = 0 /\ fs = last.pre

-----------------------------------------------------------------------------
(* The token specification: whole replays of scripts whose lines have      *)
(* white space and empty tokens around the commas, on a component that     *)
(* answers an event with no effect or with one.                            *)

\* The lines of the scripts: "down, enter", "a,", " up " and "up ,a".
TokenLines ==
    {<<"d", "o", "w", "n", ",", " ", "e", "n", "t", "e", "r">>, <<"a", ",">>,
     <<" ", "u", "p", " ">>, <<"u", "p", " ", ",", "a">>}

TokenFiles == {JoinLines(ls) : ls \in SeqsUpTo(TokenLines, MaxLines)}

InitToken ==
    /\ seriesID = <<"r">>
    /\ \E f \in TokenFiles : fs = Store(<< >>, ScriptPath(rootDir, seriesID), f)
    /\ snapshot = NoSnapshot /\ last = NoRun /\ prev = NoPrev
    /\ ToolsIdle
    /\ pc = "load"
    /\ rverify = FALSE
    /\ groups = << >> /\ gi = -1 /\ ei = 0
    /\ m \in {Component(0, "cmd", FALSE), Component(1, "cmd", FALSE)}
    /\ msg = NilMsg /\ cmd = NilCmd /\ counter = 0 /\ iter = 0 /\ obs = NoObs

TokenSpec == InitToken /\ [][NextReplay]_vars

\* The keys of the events delivered so far, in order.
DeliveredKeys == [j \in 1..Len(obs.delivered) |-> obs.delivered[j].key]

\* C24: only whole lines are trimmed, not their tokens: a token with white
\* space at either end, or an empty token, is delivered as one literal-text
\* event of exactly its characters; the line "down, enter" is delivered as
\* the Down control event and the literal text " enter", the line "a," as
\* the literal text "a" and an empty literal text, while the line " up " is
\* the Up control event.
C24_TokensNotTrimmed ==
    LET f == fs[ScriptPath(rootDir, seriesID)]
        text(t) == [kind |-> "key", Type |-> "KeyRunes", Runes |-> t]
        control(t) == [kind |-> "key", Type |-> t, Runes |-> << >>]
    IN  /\ \A j \in 1..Len(obs.delivered) :
              LET tok == Flatten(groups)[j]
              IN  (tok = << >> \/ tok # Trimmed(tok)) => obs.delivered[j].key = text(tok)
        /\ (pc = "done" /\ f = <<"d", "o", "w", "n", ",", " ", "e", "n", "t", "e", "r">>) =>
              DeliveredKeys = <<control("KeyDown"), text(<<" ", "e", "n", "t", "e", "r">>)>>
        /\ (pc = "done" /\ f = <<"a", ",">>) =>
              DeliveredKeys = <<text(<<"a">>), text(<< >>)>>
        /\ (pc = "done" /\ f = <<" ", "u", "p", " ">>) =>
              DeliveredKeys = <<control("KeyUp")>>
        /\ (pc = "done" /\ f = <<"u", "p", " ", ",", "a">>) =>
              DeliveredKeys = <<text(<<"u", "p", " ">>), text(<<"a">>)>>

\* C24's case: the script "down, enter" was replayed to its end.
C24_Witness ==
    /\ pc = "done"
    /\ fs[ScriptPath(rootDir, seriesID)] = <<"d", "o", "w", "n", ",", " ", "e", "n", "t", "e", "r">>
    /\ Len(obs.delivered) = 2
    /\ obs.delivered[2].key.Type = "KeyRunes"
    /\ obs.delivered[2].key.Runes = <<" ", "e", "n", "t", "e", "r">>

-----------------------------------------------------------------------------
(* The naming specification: the store used as TestSnapshot uses it, every *)
(* Snapshot made from ToSafeFilename of a test's name.  ret holds the test *)
(* name of the handle (raw), of the latest Run (rawLast) and of the Run    *)
(* before it (rawPrev).                                                    *)

\* The test names: "x wins" and "x_wins".
RawNames == {<<"x", " ", "w", "i", "n", "s">>, <<"x", "_", "w", "i", "n", "s">>}

InitNaming ==
    /\ \E present \in SUBSET {deriveSnapshotFilep(rootDir, ToSafeFilename(n)) : n \in RawNames} :
          fs \in [present -> Views]
    /\ snapshot = NoSnapshot /\ last = NoRun /\ prev = NoPrev
    /\ ReplayIdle
    /\ set = << >> /\ dirs = {} /\ procs = << >>
    /\ ret = [fn |-> "ToSafeFilename", raw |-> << >>, rawLast |-> << >>, rawPrev |-> << >>]

\* suite.NewSnapshot(ToSafeFilename(p.name), verify, equal)
NamedSnapshotCall ==
    /\ \E name \in RawNames, verify \in BOOLEAN :
          /\ snapshot' = NewSnapshot(rootDir, ToSafeFilename(name), verify)
          /\ ret' = [ret EXCEPT !.raw = name]
    /\ UNCHANGED <<fs, last, prev>>
    /\ UNCHANGED replayVars
    /\ UNCHANGED <<set, dirs, procs>>

\* snapshot.Run(view) on the handle made for test name ret.raw.
NamedRunCall ==
    /\ snapshot.live
    /\ \E view \in Views, rfault \in ReadFaults :
          \E w \in WriteOutcomes(view) :
             LET r == Run(snapshot, view, fs, rfault, w)
             IN  /\ fs' = r.fs
                 /\ last' = RunRecord(snapshot, view, fs, rfault, r)
                 /\ prev' = Recorded(last)
    /\ ret' = [ret EXCEPT !.rawPrev = ret.rawLast, !.rawLast = ret.raw]
    /\ UNCHANGED snapshot
    /\ UNCHANGED replayVars
    /\ UNCHANGED <<set, dirs, procs>>

NextNaming == NamedSnapshotCall \/ NamedRunCall

NamingSpec == InitNaming /\ [][NextNaming]_vars

\* C25: the test names "x wins" and "x_wins" differ and have one sanitized
\* form, so every Snapshot made for either of them under the suite has the
\* path rootDir/x_wins; and a verify-mode Run for one of the two names that
\* follows a Run which recorded a non-empty view for the other name
\* compares its own view with that baseline (when its read succeeds) and
\* leaves the file as it is.
C25_SanitizedNamesCollide ==
    /\ snapshot.live =>
          /\ snapshot.Name = <<"x", "_", "w", "i", "n", "s">>
          /\ snapshot.filep = <<"t", "/", "x", "_", "w", "i", "n", "s">>
    /\ (prev.recorded /\ prev.view # << >> /\ last.ran /\ last.s.verify
          /\ last.rfault = "ok" /\ ret.rawPrev # ret.rawLast) =>
          /\ last.s.filep = deriveSnapshotFilep(rootDir, prev.Name)
          /\ last.equal = <<[expected |-> prev.view, actual |-> last.view,
                             message |-> last.s.Name]>>
          /\ fs = last.pre

\* C25's case: a Run for "x wins" recorded a view, and the verify-mode Run
\* for "x_wins" after it compared a different view with that baseline.
C25_Witness ==
    /\ prev.recorded /\ prev.view # << >>
    /\ ret.rawPrev = <<"x", " ", "w", "i", "n", "s">>
    /\ ret.rawLast = <<"x", "_", "w", "i", "n", "s">>
    /\ last.ran /\ last.s.verify /\ Len(last.equal) = 1
    /\ last.equal[1].expected = prev.view /\ last.equal[1].actual # prev.view

-----------------------------------------------------------------------------
(* The abort of a replay, checked under ReplaySpec.                        *)

\* C26: nothing a replay has written is rolled back: at every point of the
\* replay, and so after a fatal abort by a store failure at snapshot i or
\* by the fuse inside a group, the file of every snapshot taken earlier
\* whose Run wrote it without error holds the view written then; the abort
\* itself changes no file.
C26_NoRollback ==
    /\ [](\A k \in 1..Len(obs.snaps) :
             (obs.snaps[k].err = "nil" /\ obs.snaps[k].writes = 1) =>
                 /\ deriveSnapshotFilep(rootDir, obs.snaps[k].name) \in DOMAIN fs
                 /\ fs[deriveSnapshotFilep(rootDir, obs.snaps[k].name)] = obs.snaps[k].view)
    /\ [][(pc' = "panic" /\ obs'.panic = "fuse") => fs' = fs]_vars
    /\ [](pc = "panic" => ~ENABLED NextReplay)

\* C26's case: the fuse ended the replay inside a group, after the snapshot
\* before that group had been written, and the file still holds that view.
C26_Witness ==
    /\ pc = "panic" /\ obs.panic = "fuse"
    /\ Len(obs.snaps) >= 1
    /\ obs.snaps[1].writes = 1 /\ obs.snaps[1].err = "nil"
    /\ obs.snaps[1].view # << >>
    /\ fs[deriveSnapshotFilep(rootDir, obs.snaps[1].name)] = obs.snaps[1].view

-----------------------------------------------------------------------------
(* The empty view under verify, checked under Spec.                        *)

\* C27 as stated: with verify = true and the file absent or empty, Run("")
\* creates and changes nothing and invokes no compare; the Run(w) that
\* follows it on the same handle with a non-empty w writes w, so that the
\* file holds w, without invoking compare; and compare is invoked only on
\* non-empty stored content.
C27_Original ==
    /\ []((last.ran /\ last.s.verify /\ LastStored = << >> /\ last.view = << >>)
            => (fs = last.pre /\ last.equal = << >> /\ last.writes = 0))
    /\ [][(/\ last.ran /\ last.s.verify /\ LastStored = << >> /\ last.view = << >>
           /\ last'.ran /\ last'.s = last.s /\ snapshot' = snapshot
           /\ last'.view # << >>)
            => /\ last'.equal = << >> /\ last'.writes = 1
               /\ ContentOf(fs', LastPath) = last'.view]_vars
    /\ [](Len(last.equal) > 0 => (last.s.verify /\ LastStored # << >>))

\* C27: with verify = true and the file absent or empty, Run("") creates
\* and changes nothing and invokes no compare; the Run(w) that follows it
\* on the same handle with a non-empty w invokes no compare, issues one
\* write when its read succeeds and leaves the file holding w when it
\* returns no error; and compare is invoked only under verify on non-empty
\* stored content.
C27_EmptyViewNoBaseline ==
    /\ []((last.ran /\ last.s.verify /\ LastStored = << >> /\ last.view = << >>)
            => (fs = last.pre /\ last.equal = << >> /\ last.writes = 0))
    /\ [][(/\ last.ran /\ last.s.verify /\ LastStored = << >> /\ last.view = << >>
           /\ last'.ran /\ last'.s = last.s /\ snapshot' = snapshot
           /\ last'.view # << >>)
            => /\ last'.equal = << >>
               /\ last'.rfault = "ok" => last'.writes = 1
               /\ last'.rfault # "ok" => (last'.writes = 0 /\ fs' = fs)
               /\ last'.err = "nil" => ContentOf(fs', LastPath) = last'.view]_vars
    /\ [](Len(last.equal) > 0 => (last.s.verify /\ LastStored # << >>))

\* C27's case: a verifying Run on the empty view left the file absent, and
\* the verifying Run that followed on the same name wrote a non-empty view
\* without a compare.
C27_Witness ==
    /\ prev.recorded /\ prev.verify /\ prev.view = << >>
    /\ last.ran /\ last.s.verify /\ last.s.Name = prev.Name
    /\ LastPath \notin DOMAIN last.pre
    /\ last.view # << >> /\ last.writes = 1 /\ last.equal = << >>
    /\ last.err = "nil" /\ LastContent = last.view

-----------------------------------------------------------------------------
(* The race specification: two processes run Snapshot.Run on one handle    *)
(* side by side.  A Run is the steps the operating system sees: the read   *)
(* of the file, then, when Run decides to write, the open of os.WriteFile  *)
(* (create, truncate) and its write at offset 0.  Nothing in Run holds a   *)
(* lock, so the steps of the two processes interleave freely.              *)

\* The processes.
ProcIds == {1, 2}

\* The snapshot name both processes use.
RaceName == <<"s", "t">>

\* What Run does after a read that returned r, comparing under verify
\* whatever the content is.
RunDecideAlwaysCompares(s, view, r) ==
    IF r.err # "nil" THEN "error"
    ELSE IF s.verify THEN "compare"
    ELSE IF view # r.content THEN "write"
    ELSE "none"

\* What Run does after a read that returned r: return the error, compare,
\* write, or nothing.
RunDecide(s, view, r) ==
    IF r.err # "nil" THEN "error"
    ELSE IF s.verify /\ r.content # << >> THEN "compare"
    ELSE IF view # r.content THEN "write"
    ELSE "none"

\* The content of a file holding old after data is written at offset 0.
WriteAt0(old, data) == data \o SubSeq(old, Len(data) + 1, Len(old))

\* A process about to call Run(view).
ProcStart(view) ==
    [pc |-> "read", view |-> view, readOk |-> FALSE, content |-> << >>,
     err |-> "nil", equal |-> << >>, writes |-> 0]

InitRace ==
    /\ \E present \in SUBSET {deriveSnapshotFilep(rootDir, RaceName)} :
          fs \in [present -> Views]
    /\ \E verify \in BOOLEAN : snapshot = NewSnapshot(rootDir, RaceName, verify)
    /\ last = NoRun /\ prev = NoPrev
    /\ ReplayIdle
    /\ set = << >> /\ dirs = {} /\ ret = NoCall
    /\ \E views \in [ProcIds -> Views] :
          procs = [run |-> [p \in ProcIds |-> ProcStart(views[p])], order |-> << >>]

\* The steps of the race leave everything but the file system and the
\* processes alone.
RaceFrame ==
    /\ UNCHANGED <<snapshot, last, prev>>
    /\ UNCHANGED replayVars
    /\ UNCHANGED <<set, ret, dirs>>

\* Process p reads the file and takes Run's decision on what it read.
RaceRead(p) ==
    /\ procs.run[p].pc = "read"
    /\ \E rfault \in ReadFaults :
          LET r == read(fs, snapshot.filep, rfault)
              d == RunDecide(snapshot, procs.run[p].view, r)
              me == [procs.run[p] EXCEPT !.readOk = (r.err = "nil"),
                                         !.content = r.content, !.err = r.err]
          IN  procs' = [run |-> [procs.run EXCEPT ![p] =
                            CASE d = "compare" ->
                                   [me EXCEPT !.pc = "done",
                                              !.equal = <<[expected |-> r.content,
                                                           actual |-> me.view,
                                                           message |-> snapshot.Name]>>]
                              [] d = "write" -> [me EXCEPT !.pc = "open"]
                              [] OTHER -> [me EXCEPT !.pc = "done"]],
                        order |-> Append(procs.order, <<p, "read">>)]
    /\ UNCHANGED fs
    /\ RaceFrame

\* Process p enters os.WriteFile: the open creates or truncates the file,
\* or fails.
RaceOpen(p) ==
    /\ procs.run[p].pc = "open"
    /\ \/ /\ fs' = Store(fs, snapshot.filep, << >>)
          /\ procs' = [run |-> [procs.run EXCEPT ![p].pc = "write", ![p].writes = 1],
                       order |-> Append(procs.order, <<p, "open">>)]
       \/ /\ fs' = fs
          /\ procs' = [run |-> [procs.run EXCEPT ![p].pc = "done", ![p].writes = 1,
                                                  ![p].err = "EACCES"],
                       order |-> procs.order]
    /\ RaceFrame

\* Process p writes its view at offset 0 of the file it opened: all of it,
\* or the first n bytes with an error.
RaceWrite(p) ==
    /\ procs.run[p].pc = "write"
    /\ \E n \in 0..Len(procs.run[p].view), failed \in BOOLEAN :
          /\ (~failed) => n = Len(procs.run[p].view)
          /\ fs' = Store(fs, snapshot.filep,
                         WriteAt0(fs[snapshot.filep], Prefix(procs.run[p].view, n)))
          /\ procs' = [run |-> [procs.run EXCEPT ![p].pc = "done",
                                    ![p].err = IF failed THEN "EIO" ELSE "nil"],
                       order |-> Append(procs.order, <<p, "write">>)]
    /\ RaceFrame

NextRace == \E p \in ProcIds : RaceRead(p) \/ RaceOpen(p) \/ RaceWrite(p)

RaceSpec == InitRace /\ [][NextRace]_vars

\* The process whose write came last, 0 before any write.
LastWriter ==
    LET ws == {i \in 1..Len(procs.order) : procs.order[i][2] = "write"}
    IN  IF ws = {} THEN 0
        ELSE procs.order[CHOOSE i \in ws : \A j \in ws : j <= i][1]

\* Both processes read before either opened the file for writing.
BothReadFirst ==
    /\ Len(procs.order) >= 2
    /\ procs.order[1][2] = "read" /\ procs.order[2][2] = "read"

\* The position of process p's step of kind k in the order of the steps.
StepAt(p, k) == CHOOSE i \in 1..Len(procs.order) : procs.order[i] = <<p, k>>

\* Both processes ran to the end and wrote without an error.
BothWrote ==
    \A p \in ProcIds :
        /\ procs.run[p].pc = "done" /\ procs.run[p].err = "nil"
        /\ procs.run[p].writes = 1

\* C28: two processes running Run on one name without a lock: a process
\* that read empty content never compares, in verify mode too, and when it
\* has a non-empty view it goes on to write it; so when both read before
\* either writes, both write, and after both wrote without error the file
\* starts with the view of the process that wrote last, and is that view
\* when that process opened the file after the other one's write.
C28_UnlockedRun ==
    /\ \A p \in ProcIds :
          (procs.run[p].readOk /\ procs.run[p].content = << >>) =>
              /\ procs.run[p].equal = << >>
              /\ (procs.run[p].view # << >> /\ procs.run[p].pc = "done") =>
                     procs.run[p].writes = 1
    /\ BothWrote =>
          LET lw == LastWriter
              other == CHOOSE p \in ProcIds : p # lw
              stored == fs[snapshot.filep]
          IN  /\ lw \in ProcIds
              /\ Prefix(stored, Len(procs.run[lw].view)) = procs.run[lw].view
              /\ (StepAt(lw, "open") > StepAt(other, "write")
                     \/ Len(procs.run[lw].view) >= Len(procs.run[other].view))
                    => stored = procs.run[lw].view

\* C28's case: under verify and with no baseline, both processes read empty
\* content before either wrote, neither compared, both wrote, their views
\* differ, and the file holds the view of the one that wrote last.
C28_Witness ==
    /\ snapshot.verify /\ BothReadFirst /\ BothWrote
    /\ \A p \in ProcIds :
          /\ procs.run[p].readOk /\ procs.run[p].content = << >>
          /\ procs.run[p].equal = << >>
    /\ procs.run[1].view # procs.run[2].view
    /\ fs[snapshot.filep] = procs.run[LastWriter].view

====
